---- MODULE Spec2Model ----
(***************************************************************************)
(* LZ77 + fixed-Huffman DEFLATE compressor (src/unnamed/part_000).         *)
(*                                                                         *)
(* The compressor is modelled as a state machine that follows              *)
(* deflate_compress from the opening of the input file to the write of     *)
(* the output file: one action per I/O step, one per iteration of the      *)
(* lz77_compress outer loop, one per iteration of the encoding loop.       *)
(* Positions are 0-based as in the C code; sequences are 1-based, so       *)
(* data[i] of the C code is DataAt(data, i, g) here.                       *)
(***************************************************************************)
EXTENDS Integers, Sequences, FiniteSets, TLC

(***************************************************************************)
(* Program constants.                                                      *)
(***************************************************************************)
MIN_MATCH == 3
MAX_MATCH == 258
HASH_BITS == 15
HASH_SIZE == 2 ^ HASH_BITS
HASH_MASK == HASH_SIZE - 1
MAX_DIST == 32768
LENGTH_CODES == 29
DIST_CODES == 30
\* the chain-length limit of the match search (chain_len < 128)
MAX_CHAIN == 128
\* the least capacity deflate_compress gives the bit buffer
MIN_BUFFER == 1024

(***************************************************************************)
(* Bounds of the model.                                                    *)
(***************************************************************************)
\* every input over Bytes of at most this many bytes is compressed
MaxLen == 7
\* number of write_bits calls in the BitWriter specification
MaxWrites == 3

\* the two byte values of the exhaustive inputs: 65 <= 143 takes the 8-bit
\* literal code, 225 >= 144 the 9-bit one; both have the same low five bits,
\* so hash3 collides on triples that differ in the first byte only
Bytes == {65, 225}

\* what a read of memory the program never wrote may yield
Garbage == {-1, 0}

\* marks a prev[] cell that malloc returned and no insertion has written
UNINIT == -2

(***************************************************************************)
(* Bit arithmetic on naturals.                                             *)
(***************************************************************************)
BitAt(v, k) == (v \div (2 ^ k)) % 2

RECURSIVE BitXor(_, _)
BitXor(a, b) ==
    IF a = 0 THEN b
    ELSE IF b = 0 THEN a
    ELSE (((a % 2) + (b % 2)) % 2) + 2 * BitXor(a \div 2, b \div 2)

\* the n low bits of v, least significant first
RECURSIVE LsbBits(_, _)
LsbBits(v, n) == IF n = 0 THEN << >> ELSE <<v % 2>> \o LsbBits(v \div 2, n - 1)

Min(a, b) == IF a < b THEN a ELSE b

(***************************************************************************)
(* uint32_t, as the vector of its 32 bits (bit k at index k).              *)
(***************************************************************************)
U32Zero == [k \in 0..31 |-> 0]

\* conversion of a value 0 <= v < 2^31 to uint32_t
ToU32(v) == [k \in 0..31 |-> IF k = 31 THEN 0 ELSE BitAt(v, k)]

\* x << c on uint32_t: bits shifted past bit 31 are lost
U32Shl(x, c) == [k \in 0..31 |-> IF k >= c THEN x[k - c] ELSE 0]

\* x >> c on uint32_t
U32Shr(x, c) == [k \in 0..31 |-> IF k + c <= 31 THEN x[k + c] ELSE 0]

\* x | y
U32Or(x, y) == [k \in 0..31 |-> IF x[k] = 1 \/ y[k] = 1 THEN 1 ELSE 0]

\* x & 0xFF, as a number
U32LowByte(x) ==
    x[0] + 2 * x[1] + 4 * x[2] + 8 * x[3] + 16 * x[4] + 32 * x[5]
    + 64 * x[6] + 128 * x[7]

(***************************************************************************)
(* BitBuffer: bits (accumulator), count (pending bits), output (the bytes  *)
(* output[0..pos-1]; pos is Len(output)), capacity.                        *)
(***************************************************************************)
init_bitbuffer(capacity) ==
    [bits |-> U32Zero, count |-> 0, output |-> << >>, capacity |-> capacity]

RECURSIVE DrainBytes(_)
\* a faulty variant of DrainBytes: while (bb->count > 8)
DrainBytesLate(bb) ==
    IF bb.count > 8
    THEN DrainBytes([bits |-> U32Shr(bb.bits, 8),
                     count |-> bb.count - 8,
                     output |-> Append(bb.output, U32LowByte(bb.bits)),
                     capacity |-> IF Len(bb.output) >= bb.capacity
                                  THEN bb.capacity * 2 ELSE bb.capacity])
    ELSE bb

\* the while loop of write_bits: emit the low byte while 8 bits are pending
DrainBytes(bb) ==
    IF bb.count >= 8
    THEN DrainBytes([bits |-> U32Shr(bb.bits, 8),
                     count |-> bb.count - 8,
                     output |-> Append(bb.output, U32LowByte(bb.bits)),
                     capacity |-> IF Len(bb.output) >= bb.capacity
                                  THEN bb.capacity * 2 ELSE bb.capacity])
    ELSE bb

\* a faulty variant of Accumulate: bb->bits |= bits
AccumulateUnshifted(bb, bits) == U32Or(bb.bits, ToU32(bits))

\* bb->bits |= (bits << bb->count)
Accumulate(bb, bits) == U32Or(bb.bits, U32Shl(ToU32(bits), bb.count))

write_bits(bb, bits, count) ==
    DrainBytes([bb EXCEPT !.bits = Accumulate(bb, bits),
                          !.count = bb.count + count])

\* the byte flush_bits stores
FlushByte(bb) == U32LowByte(bb.bits)

\* a faulty variant of FlushNeeded: only whole bytes are stored
FlushWholeBytesOnly(bb) == bb.count >= 8

\* whether flush_bits stores a byte
FlushNeeded(bb) == bb.count > 0

flush_bits(bb) ==
    IF FlushNeeded(bb)
    THEN [bb EXCEPT !.output = Append(bb.output, FlushByte(bb))]
    ELSE bb

(***************************************************************************)
(* lz77_compress.                                                          *)
(***************************************************************************)
\* data[i]; a read outside the buffer yields whatever lies there
DataAt(data, i, g) == IF i >= 0 /\ i < Len(data) THEN data[i + 1] ELSE g % 256

\* ((data[0] << 10) ^ (data[1] << 5) ^ data[2]) & HASH_MASK, data = &data[p];
\* HASH_MASK is 2^15 - 1, so the mask is the remainder modulo HASH_SIZE
hash3(data, p, g) ==
    BitXor(BitXor(DataAt(data, p, g) * 1024, DataAt(data, p + 1, g) * 32),
           DataAt(data, p + 2, g)) % HASH_SIZE

\* the value every hash_table cell holds after the initialisation loop
EmptyHead(g) == -1

\* hash_table[h]: the table is kept as the cells written since the
\* initialisation loop; every other cell still holds its initial value
HashGet(hash_table, h, g) ==
    IF h \in DOMAIN hash_table THEN hash_table[h] ELSE EmptyHead(g)

\* prev[i]: a cell no insertion wrote holds whatever malloc returned
PrevRead(prev, i, g) ==
    IF i \in DOMAIN prev /\ prev[i] # UNINIT THEN prev[i] ELSE g

\* a faulty variant of TrySearch: pos + MIN_MATCH - 1 <= size
TrySearchLoose(pos, size) == pos + MIN_MATCH - 1 <= size

\* pos + MIN_MATCH <= size
TrySearch(pos, size) == pos + MIN_MATCH <= size

\* a faulty variant of MaxLenAt: the cap at MAX_MATCH is missing
MaxLenUncapped(size, pos) == size - pos

\* (size - pos < MAX_MATCH) ? (size - pos) : MAX_MATCH
MaxLenAt(size, pos) == IF size - pos < MAX_MATCH THEN size - pos ELSE MAX_MATCH

\* a faulty variant of MatchLength: the comparison stops where the source
\* would reach pos, so that no match overlaps its own destination
MatchLengthNoOverlap(data, match_pos, pos, max_len, g) ==
    LET stop == {len \in 0..max_len :
                   ~(/\ len < max_len
                     /\ match_pos + len < pos
                     /\ DataAt(data, match_pos + len, g)
                          = DataAt(data, pos + len, g))}
    IN  CHOOSE len \in stop : \A other \in stop : len <= other

\* while (len < max_len && data[match_pos + len] == data[pos + len]) len++:
\* len ends as the least value at which the loop condition fails
MatchLength(data, match_pos, pos, max_len, g) ==
    LET stop == {len \in 0..max_len :
                   ~(/\ len < max_len
                     /\ DataAt(data, match_pos + len, g)
                          = DataAt(data, pos + len, g))}
    IN  CHOOSE len \in stop : \A other \in stop : len <= other

\* a faulty variant of Better: the first candidate long enough is kept
BetterFirstOnly(len, best_length) == len >= MIN_MATCH /\ best_length = 0

\* a faulty variant of Better: len >= best_length
BetterOrEqual(len, best_length) == len >= MIN_MATCH /\ len >= best_length

\* len >= MIN_MATCH && len > best_length
Better(len, best_length) == len >= MIN_MATCH /\ len > best_length

\* a faulty variant of OutOfWindow: distance > 32768 + 1
OutOfWindowLate(distance) == distance > MAX_DIST + 1 \/ distance <= 0

\* distance > MAX_DIST || distance <= 0
OutOfWindow(distance) == distance > MAX_DIST \/ distance <= 0

\* a faulty variant of ChainContinues: chain_len <= 128
ChainContinuesLoose(match_pos, chain_len) ==
    match_pos >= 0 /\ chain_len <= MAX_CHAIN

\* the condition of the hash-chain loop: match_pos >= 0 && chain_len < 128
ChainContinues(match_pos, chain_len) ==
    match_pos >= 0 /\ chain_len < MAX_CHAIN

\* one iteration of the hash-chain loop; s holds match_pos, chain_len,
\* best_length, best_distance, cands (the candidates compared so far) and
\* left (whether the loop has been left, by its condition or by break)
ChainStep(data, size, pos, prev, s, g) ==
    IF s.left THEN s
    ELSE IF ~ChainContinues(s.match_pos, s.chain_len)
    THEN [s EXCEPT !.left = TRUE]
    ELSE LET distance == pos - s.match_pos IN
         IF OutOfWindow(distance) THEN [s EXCEPT !.left = TRUE]
         ELSE LET len == MatchLength(data, s.match_pos, pos,
                                     MaxLenAt(size, pos), g)
                  better == Better(len, s.best_length)
              IN  [match_pos |-> PrevRead(prev, s.match_pos, g),
                   chain_len |-> s.chain_len + 1,
                   best_length |-> IF better THEN len ELSE s.best_length,
                   best_distance |-> IF better THEN distance
                                     ELSE s.best_distance,
                   cands |-> Append(s.cands, s.match_pos),
                   left |-> FALSE]

\* n iterations of the hash-chain loop, in order: the first half, then
\* the second half from the state half the first one left
RECURSIVE ChainSteps(_, _, _, _, _, _, _)
ChainSteps(data, size, pos, prev, s, n, g) ==
    IF n = 0 \/ s.left THEN s
    ELSE IF n = 1 THEN ChainStep(data, size, pos, prev, s, g)
    ELSE CHOOSE r \in {ChainSteps(data, size, pos, prev, half,
                                  n - (n \div 2), g) :
                         half \in {ChainSteps(data, size, pos, prev, s,
                                              n \div 2, g)}} : TRUE

\* the hash-chain loop: chain_len < MAX_CHAIN ends it after at most
\* MAX_CHAIN iterations, and one more evaluation of its condition
SearchChain(data, size, pos, prev, s, g) ==
    ChainSteps(data, size, pos, prev, s, MAX_CHAIN + 1, g)

\* the match search of one outer iteration
FindMatch(data, size, pos, hash_table, prev, g) ==
    IF TrySearch(pos, size)
    THEN SearchChain(data, size, pos, prev,
           [match_pos |-> HashGet(hash_table, hash3(data, pos, g), g),
            chain_len |-> 0, best_length |-> 0, best_distance |-> 0,
            cands |-> << >>, left |-> FALSE], g)
    ELSE [match_pos |-> -1, chain_len |-> 0, best_length |-> 0,
          best_distance |-> 0, cands |-> << >>, left |-> TRUE]

\* a faulty variant of InsertPos: prev[p] is not written
InsertPosNoLink(tab, data, p, g) ==
    [head |-> (hash3(data, p, g) :> p) @@ tab.head, prev |-> tab.prev]

\* a faulty variant of InsertPos: hash_table[h] = p; prev[p] = hash_table[h]
InsertPosSwapped(tab, data, p, g) ==
    [head |-> (hash3(data, p, g) :> p) @@ tab.head,
     prev |-> [tab.prev EXCEPT ![p] = p]]

\* h = hash3(&data[p]); prev[p] = hash_table[h]; hash_table[h] = p;
\* tab holds head (the hash table) and prev
InsertPos(tab, data, p, g) ==
    LET h == hash3(data, p, g) IN
    [head |-> (h :> p) @@ tab.head,
     prev |-> [tab.prev EXCEPT ![p] = HashGet(tab.head, h, g)]]

\* the insertions of positions lo..hi, in increasing order (the range is
\* halved so that the evaluation stays shallow; every position of the range
\* is a cell of prev, and reading tab first makes the left half complete
\* before the right half starts)
RECURSIVE InsertRange(_, _, _, _, _)
InsertRange(tab, data, lo, hi, g) ==
    IF lo > hi \/ lo \notin DOMAIN tab.prev THEN tab
    ELSE IF lo = hi THEN InsertPos(tab, data, lo, g)
    ELSE LET mid == (lo + hi) \div 2 IN
         CHOOSE r \in {InsertRange(half, data, mid + 1, hi, g) :
                       half \in {InsertRange(tab, data, lo, mid, g)}} : TRUE

\* a faulty variant of InsertMatch: i <= best_length
InsertMatchOneMore(tab, data, size, pos, best_length, g) ==
    InsertRange(tab, data, pos,
                pos + Min(best_length + 1, size - pos - 2) - 1, g)

\* for (i = 0; i < best_length && pos + i + 2 < size; i++) insert pos + i:
\* i runs from 0 up to the first value that fails the condition
InsertMatch(tab, data, size, pos, best_length, g) ==
    InsertRange(tab, data, pos,
                pos + Min(best_length, size - pos - 2) - 1, g)

\* a faulty variant of InsertLiteral: a literal's position is not inserted
InsertLiteralSkipped(tab, data, size, pos, g) == tab

\* a faulty variant of InsertLiteral: the test pos + 2 < size is missing
InsertLiteralUnguarded(tab, data, size, pos, g) == InsertPos(tab, data, pos, g)

\* if (pos + 2 < size) insert pos
InsertLiteral(tab, data, size, pos, g) ==
    IF pos + 2 < size THEN InsertPos(tab, data, pos, g) ELSE tab

\* best_length >= MIN_MATCH
EmitMatch(best_length) == best_length >= MIN_MATCH

MatchToken(best_length, best_distance) ==
    [literal |-> -1, length |-> best_length, distance |-> best_distance]

LiteralToken(data, pos, g) ==
    [literal |-> DataAt(data, pos, g), length |-> 0, distance |-> 0]

\* a faulty variant of AdvanceMatch: pos += best_length - 1
AdvanceMatchShort(pos, best_length) == pos + best_length - 1

\* a faulty variant of AdvanceMatch: pos++ as after a literal
AdvanceMatchByOne(pos, best_length) == pos + 1

\* a faulty variant of AdvanceMatch: pos is left as it is
AdvanceMatchNone(pos, best_length) == pos

\* pos += best_length
AdvanceMatch(pos, best_length) == pos + best_length

(***************************************************************************)
(* Code tables.                                                            *)
(***************************************************************************)
length_base ==
    <<3, 4, 5, 6, 7, 8, 9, 10, 11, 13, 15, 17, 19, 23, 27, 31,
      35, 43, 51, 59, 67, 83, 99, 115, 131, 163, 195, 227, 258>>

length_extra ==
    <<0, 0, 0, 0, 0, 0, 0, 0, 1, 1, 1, 1, 2, 2, 2, 2,
      3, 3, 3, 3, 4, 4, 4, 4, 5, 5, 5, 5, 0>>

dist_base ==
    <<1, 2, 3, 4, 5, 7, 9, 13, 17, 25, 33, 49, 65, 97, 129, 193,
      257, 385, 513, 769, 1025, 1537, 2049, 3073, 4097, 6145,
      8193, 12289, 16385, 24577>>

dist_extra ==
    <<0, 0, 0, 0, 1, 1, 2, 2, 3, 3, 4, 4, 5, 5, 6, 6,
      7, 7, 8, 8, 9, 9, 10, 10, 11, 11, 12, 12, 13, 13>>

\* a faulty variant of RangeLookup: the test i == n - 1 is missing, so the
\* last range is never found
RangeLookupNoLast(base, extra, n, first_code, v) ==
    LET hit == {i \in 0..(n - 1) :
                  base[i + 1] <= v /\ i < n - 1 /\ v < base[i + 2]}
    IN  IF hit = {}
        THEN [code |-> 0, extra_bits |-> 0, extra_value |-> 0]
        ELSE LET i == CHOOSE j \in hit : \A k \in hit : j <= k
             IN  [code |-> first_code + i,
                  extra_bits |-> extra[i + 1],
                  extra_value |-> v - base[i + 1]]

\* the range lookup both functions share: the first index i in 0..n-1 with
\* base[i] <= v && (i == n - 1 || v < base[i + 1]); the out-parameters keep
\* the 0 the caller initialised them with when no index qualifies
RangeLookup(base, extra, n, first_code, v) ==
    LET hit == {i \in 0..(n - 1) :
                  base[i + 1] <= v /\ (i = n - 1 \/ v < base[i + 2])}
    IN  IF hit = {}
        THEN [code |-> 0, extra_bits |-> 0, extra_value |-> 0]
        ELSE LET i == CHOOSE j \in hit : \A k \in hit : j <= k
             IN  [code |-> first_code + i,
                  extra_bits |-> extra[i + 1],
                  extra_value |-> v - base[i + 1]]

\* a faulty variant of get_length_code: *code = 256 + i
get_length_code_from_256(length) ==
    RangeLookup(length_base, length_extra, LENGTH_CODES, 256, length)

get_length_code(length) ==
    RangeLookup(length_base, length_extra, LENGTH_CODES, 257, length)

get_distance_code(distance) ==
    RangeLookup(dist_base, dist_extra, DIST_CODES, 0, distance)

(***************************************************************************)
(* The encoder of deflate_compress.                                        *)
(***************************************************************************)
\* the 5-bit reversal loop: bit j of dist_code sets bit 4 - j
reversed_dist(dist_code) ==
    16 * BitAt(dist_code, 0) + 8 * BitAt(dist_code, 1)
    + 4 * BitAt(dist_code, 2) + 2 * BitAt(dist_code, 3) + BitAt(dist_code, 4)

\* a faulty variant of LiteralCalls: write_bits(bb, 0x190 + lit, 9)
LiteralCallsNoOffset(lit) ==
    IF lit <= 143 THEN << <<48 + lit, 8>> >>
    ELSE << <<400 + lit, 9>> >>

\* write_bits(bb, 0x30 + lit, 8) or write_bits(bb, 0x190 + (lit - 144), 9)
LiteralCalls(lit) ==
    IF lit <= 143 THEN << <<48 + lit, 8>> >>
    ELSE << <<400 + (lit - 144), 9>> >>

\* a faulty variant of LengthCodeCall: every length code written in 7 bits
LengthCodeCallSeven(len_code) == <<len_code - 256, 7>>

\* write_bits(bb, len_code - 256, 7) or write_bits(bb, 0xC0 + ..., 8)
LengthCodeCall(len_code) ==
    IF len_code <= 279 THEN <<len_code - 256, 7>>
    ELSE <<192 + (len_code - 280), 8>>

\* if (extra_bits > 0) write_bits(bb, extra_value, extra_bits)
ExtraCalls(c) ==
    IF c.extra_bits > 0 THEN << <<c.extra_value, c.extra_bits>> >> ELSE << >>

\* the write_bits calls of a length/distance pair, in order
MatchCalls(length, distance) ==
    LET lc == get_length_code(length)
        dc == get_distance_code(distance)
    IN  <<LengthCodeCall(lc.code)>> \o ExtraCalls(lc)
        \o << <<reversed_dist(dc.code), 5>> >> \o ExtraCalls(dc)

\* the write_bits calls of one iteration of the encoding loop
TokenCalls(t) ==
    IF t.literal >= 0 THEN LiteralCalls(t.literal)
    ELSE MatchCalls(t.length, t.distance)

\* a faulty variant of HeaderCalls: BTYPE written as the value 2
HeaderCallsBtype2 == << <<1, 1>>, <<2, 2>> >>

\* write_bits(bb, 1, 1); write_bits(bb, 1, 2)
HeaderCalls == << <<1, 1>>, <<1, 2>> >>

\* write_bits(bb, 0, 7)
EndOfBlockCalls == << <<0, 7>> >>

\* the calls of a sequence, applied in order
RECURSIVE WriteAll(_, _)
WriteAll(bb, calls) ==
    IF calls = << >> THEN bb
    ELSE CHOOSE r \in {WriteAll(nb, Tail(calls)) :
                       nb \in {write_bits(bb, calls[1][1], calls[1][2])}} :
             TRUE

\* a faulty variant of buffer_size: room for input_size bytes only
buffer_size_of_input(input_size) ==
    IF input_size > 0 THEN input_size ELSE 1

\* (input_size * 2 > 1024) ? input_size * 2 : 1024
buffer_size(input_size) ==
    IF input_size * 2 > MIN_BUFFER THEN input_size * 2 ELSE MIN_BUFFER

\* lit_freq / dist_freq after the frequency loop, as the cells that are not 0
RECURSIVE CountSymbols(_, _, _)
CountSymbols(tokens, k, f) ==
    IF k > Len(tokens) THEN f
    ELSE LET t == tokens[k]
             bump(tab, c) ==
                 IF c \in DOMAIN tab THEN [tab EXCEPT ![c] = @ + 1]
                 ELSE (c :> 1) @@ tab
         IN  IF t.literal >= 0
             THEN CountSymbols(tokens, k + 1,
                    [lit |-> bump(f.lit, t.literal), dist |-> f.dist])
             ELSE CountSymbols(tokens, k + 1,
                    [lit |-> bump(f.lit, get_length_code(t.length).code),
                     dist |-> bump(f.dist, get_distance_code(t.distance).code)])

\* the frequency tables, with lit_freq[256]++ for the end-of-block marker
Frequencies(tokens) ==
    LET f == CountSymbols(tokens, 1, [lit |-> << >>, dist |-> << >>])
    IN  [lit |-> IF 256 \in DOMAIN f.lit
                 THEN [f.lit EXCEPT ![256] = @ + 1]
                 ELSE (256 :> 1) @@ f.lit,
         dist |-> f.dist]

(***************************************************************************)
(* The Huffman trees deflate_compress builds.  A HuffNode is a record of   *)
(* freq, symbol and kids, the children that are not NULL: none for a leaf, *)
(* left alone for the parent of a single symbol, left and right otherwise. *)
(***************************************************************************)
MAX_CODES == 286

\* the loop that creates the leaves: a node for every i < num_symbols with
\* freqs[i] > 0, in increasing order of i
Leaves(freqs, num_symbols) ==
    LET used == {i \in DOMAIN freqs : i < num_symbols /\ freqs[i] > 0}
        nth(r) == CHOOSE i \in used :
                      Cardinality({j \in used : j < i}) = r - 1
    IN  [r \in 1..Cardinality(used) |->
            [freq |-> freqs[nth(r)], symbol |-> nth(r), kids |-> << >>]]

\* qsort(nodes, node_count, ..., compare_nodes): ascending freq; the order
\* of nodes of equal freq is the library's: as they stood (flip = FALSE) or
\* reversed (flip = TRUE)
SortNodes(nodes, flip) ==
    LET n == Len(nodes)
        before(i, j) ==
            \/ nodes[i].freq < nodes[j].freq
            \/ nodes[i].freq = nodes[j].freq
                 /\ (IF flip THEN i > j ELSE i < j)
        place(i) == 1 + Cardinality({j \in 1..n : before(j, i)})
    IN  [r \in 1..n |-> nodes[CHOOSE i \in 1..n : place(i) = r]]

\* the while loop of build_huffman_tree: sort, join the two nodes of
\* lowest freq under a parent that takes the first place
RECURSIVE MergeNodes(_, _)
MergeNodes(nodes, flip) ==
    IF Len(nodes) <= 1 THEN nodes[1]
    ELSE LET sorted == SortNodes(nodes, flip)
             parent == [freq |-> sorted[1].freq + sorted[2].freq,
                        symbol |-> -1,
                        kids |-> <<sorted[1], sorted[2]>>]
         IN  MergeNodes(<<parent>> \o SubSeq(sorted, 3, Len(sorted)), flip)

build_huffman_tree(freqs, num_symbols, flip) ==
    LET nodes == Leaves(freqs, num_symbols) IN
    IF Len(nodes) = 0
    THEN [freq |-> 1, symbol |-> 0, kids |-> << >>]
    ELSE IF Len(nodes) = 1
    THEN [freq |-> nodes[1].freq, symbol |-> -1, kids |-> <<nodes[1]>>]
    ELSE MergeNodes(nodes, flip)

\* the HuffNodes build_huffman_tree allocates: one per leaf (or the dummy),
\* one per parent
NodesAllocated(freqs, num_symbols) ==
    LET n == Len(Leaves(freqs, num_symbols)) IN
    IF n = 0 THEN 1 ELSE IF n = 1 THEN 2 ELSE n + (n - 1)

\* the HuffNodes free_huffman_tree frees
RECURSIVE TreeSize(_)
TreeSize(node) ==
    1 + (IF Len(node.kids) >= 1 THEN TreeSize(node.kids[1]) ELSE 0)
      + (IF Len(node.kids) >= 2 THEN TreeSize(node.kids[2]) ELSE 0)

\* generate_codes: the cells of codes[] it writes; code | (1 << depth) adds
\* bit depth, which no code of that depth has set, in a uint16_t
RECURSIVE generate_codes(_, _, _)
generate_codes(node, code, depth) ==
    IF node.kids = << >>
    THEN (node.symbol :> [code |-> code, length |-> depth])
    ELSE generate_codes(node.kids[1], code, depth + 1)
         @@ (IF Len(node.kids) >= 2
             THEN generate_codes(node.kids[2],
                                 (code + 2 ^ depth) % 65536, depth + 1)
             ELSE << >>)

(***************************************************************************)
(* State.                                                                  *)
(***************************************************************************)
VARIABLES
    data,        \* the bytes of the input file
    pc,          \* the place deflate_compress has reached
    run,         \* 1 for the first invocation on data, 2 for the second
    input_size,  \* input_size of deflate_compress, size of lz77_compress
    pos,         \* pos of lz77_compress
    tokens,      \* tokens[0 .. *token_count - 1]
    hash_table,  \* hash_table of lz77_compress (cells written so far)
    prev,        \* prev of lz77_compress
    steps,       \* per token: where it starts, whether a search was made,
                 \* the hash_table cell it read and the candidates compared
    freq,        \* lit_freq and dist_freq
    huff,        \* lit_tree, dist_tree, lit_codes and dist_codes
    heap,        \* per buffer, node kind and file: how many were obtained
                 \* (malloc, fopen) and how many released (free, fclose)
    bb,          \* the BitBuffer
    packs,       \* the write_bits calls made so far, <<bits, count>> each
    tok_i,       \* i of the encoding loop
    exit_code,   \* what deflate_compress returned (-1 while it runs)
    out,         \* the output file: whether it was opened, its bytes, and
                 \* whether fwrite wrote all it was given (complete)
    first        \* exit code, output file and bytes handed to fwrite of the
                 \* first invocation

vars == <<data, pc, run, input_size, pos, tokens, hash_table, prev, steps,
          freq, huff, heap, bb, packs, tok_i, exit_code, out, first>>

RunOf(b, n) == [i \in 1..n |-> b]

\* every byte sequence over Bytes of length 0..MaxLen
ShortInputs == UNION {[1..n -> Bytes] : n \in 0..MaxLen}

\* "ABCDEFABCDEF"
TieBreakInput == <<65, 66, 67, 68, 69, 70, 65, 66, 67, 68, 69, 70>>

\* runs of one byte: matches whose length has extra bits (19), an 8-bit
\* length code (130), the length MAX_MATCH, and a hash chain of more than
\* MAX_CHAIN positions
LongRuns == {RunOf(65, n) : n \in {20, 131, 259, 260, 262}}

\* "ABCXABCYABCX": at position 8 the nearer candidate (4) matches 3 bytes,
\* the farther one (0) matches 4
LongerFartherInput == <<65, 66, 67, 88, 65, 66, 67, 89, 65, 66, 67, 88>>

\* "ABCXABCYABCZ": at position 8 both candidates match 3 bytes
EqualCandidatesInput == <<65, 66, 67, 88, 65, 66, 67, 89, 65, 66, 67, 90>>

Inputs == ShortInputs \cup {TieBreakInput} \cup LongRuns
          \cup {LongerFartherInput, EqualCandidatesInput}

NoOutput == [opened |-> FALSE, bytes |-> << >>, complete |-> FALSE]
NoFreq == [lit |-> << >>, dist |-> << >>]
\* no tree built (the pointers do not exist yet), no code generated
NoHuff == [built |-> FALSE, lit_tree |-> << >>, dist_tree |-> << >>,
           lit_codes |-> << >>, dist_codes |-> << >>]
NotRun == [exit_code |-> -1, out |-> NoOutput, produced |-> << >>,
           tokens |-> << >>, huff |-> NoHuff]

\* the files (input, output), the buffers, the node arrays of the two
\* build_huffman_tree calls (nodes) and the HuffNodes of each tree
Resources == {"input", "output", "input_data", "tokens", "hash_table",
              "prev", "nodes", "lit_tree", "dist_tree", "bb", "bb_output"}

\* nothing obtained, nothing released
NoHeap == [r \in Resources |-> [got |-> 0, freed |-> 0]]

\* n of resource r obtained (malloc, fopen)
Got(h, r, n) == [h EXCEPT ![r].got = @ + n]

\* n of resource r released (free, fclose)
Freed(h, r, n) == [h EXCEPT ![r].freed = @ + n]

\* one of each resource of rs obtained
GotAll(h, rs) ==
    [r \in Resources |-> IF r \in rs THEN [h[r] EXCEPT !.got = @ + 1] ELSE h[r]]

\* one of each resource of rs released
FreedAll(h, rs) ==
    [r \in Resources |->
        IF r \in rs THEN [h[r] EXCEPT !.freed = @ + 1] ELSE h[r]]

\* free_huffman_tree(lit_tree); free_huffman_tree(dist_tree)
FreeTrees(h) ==
    Freed(Freed(h, "lit_tree", TreeSize(huff.lit_tree)),
          "dist_tree", TreeSize(huff.dist_tree))

\* the buffers lz77_compress allocates
Lz77Allocs == {"tokens", "hash_table", "prev"}

\* the buffers lz77_compress frees before it returns
Lz77Frees == {"hash_table", "prev"}

\* what the short-read path frees
ShortReadFrees == {"input_data"}

\* a faulty variant of OutputFailFrees: free(tokens) is missing
OutputFailFreesNoTokens(size) ==
    (IF size > 0 THEN {"input_data"} ELSE {}) \cup {"bb_output", "bb"}

\* what the path of a failed output fopen frees, the trees apart;
\* input_data and tokens are NULL for an empty input, and free(NULL) frees
\* nothing
OutputFailFrees(size) ==
    (IF size > 0 THEN {"input_data", "tokens"} ELSE {}) \cup {"bb_output", "bb"}

\* what the cleanup of the successful path frees, the trees apart
SuccessFrees(size) ==
    (IF size > 0 THEN {"input_data", "tokens"} ELSE {}) \cup {"bb_output", "bb"}

\* the locals of an invocation before it has done anything
Fresh ==
    /\ pc = "start"
    /\ input_size = 0
    /\ pos = 0
    /\ tokens = << >>
    /\ hash_table = << >>
    /\ prev = << >>
    /\ steps = << >>
    /\ freq = NoFreq
    /\ huff = NoHuff
    /\ heap = NoHeap
    /\ bb = init_bitbuffer(0)
    /\ packs = << >>
    /\ tok_i = 0
    /\ exit_code = -1
    /\ out = NoOutput

Init ==
    /\ data \in Inputs
    /\ run = 1
    /\ first = NotRun
    /\ Fresh

(***************************************************************************)
(* deflate_compress: reading the input.                                    *)
(***************************************************************************)
\* fopen(input_filename) fails: return 1
OpenInputFail ==
    /\ pc = "start"
    /\ pc' = "exit"
    /\ exit_code' = 1
    /\ UNCHANGED <<data, run, input_size, pos, tokens, hash_table, prev,
                   steps, freq, huff, heap, bb, packs, tok_i, out, first>>

\* fopen succeeds; fseek/ftell give input_size
OpenInput ==
    /\ pc = "start"
    /\ pc' = "read"
    /\ input_size' = Len(data)
    /\ heap' = GotAll(heap, {"input"})
    /\ UNCHANGED <<data, run, pos, tokens, hash_table, prev, steps, freq, huff,
                   bb, packs, tok_i, exit_code, out, first>>

\* fread returns fewer bytes than input_size: return 1
ReadShort ==
    /\ pc = "read"
    /\ input_size > 0
    /\ pc' = "exit"
    /\ exit_code' = 1
    /\ heap' = FreedAll(FreedAll(GotAll(heap, {"input_data"}), {"input"}),
                      ShortReadFrees)
    /\ UNCHANGED <<data, run, input_size, pos, tokens, hash_table, prev,
                   steps, freq, huff, bb, packs, tok_i, out, first>>

\* the whole file is read (or it is empty); with input_size > 0 lz77_compress
\* is entered: hash_table filled with -1, prev as malloc returned it
ReadInput ==
    /\ pc = "read"
    /\ pc' = IF input_size > 0 THEN "lz77" ELSE "freq"
    /\ pos' = 0
    /\ tokens' = << >>
    /\ hash_table' = << >>
    /\ prev' = [i \in 0..(input_size - 1) |-> UNINIT]
    /\ heap' = IF input_size > 0
               THEN GotAll(FreedAll(GotAll(heap, {"input_data"}), {"input"}),
                           Lz77Allocs)
               ELSE FreedAll(heap, {"input"})
    /\ UNCHANGED <<data, run, input_size, steps, freq, huff, bb, packs, tok_i,
                   exit_code, out, first>>

(***************************************************************************)
(* lz77_compress: one iteration of while (pos < size).                     *)
(***************************************************************************)
\* the body of while (pos < size), on the locals st of lz77_compress (pos,
\* tokens, hash_table, prev) and the record steps of the searches made
Lz77Iter(input, size, st, g) ==
    LET tab == [head |-> st.hash_table, prev |-> st.prev]
        Insert(m) ==
            IF EmitMatch(m.best_length)
            THEN InsertMatch(tab, input, size, st.pos, m.best_length, g)
            ELSE InsertLiteral(tab, input, size, st.pos, g)
        After(m, ins) ==
            [tokens |-> Append(st.tokens,
                          IF EmitMatch(m.best_length)
                          THEN MatchToken(m.best_length, m.best_distance)
                          ELSE LiteralToken(input, st.pos, g)),
             hash_table |-> ins.head,
             prev |-> ins.prev,
             pos |-> IF EmitMatch(m.best_length)
                     THEN AdvanceMatch(st.pos, m.best_length)
                     ELSE st.pos + 1,
             steps |-> Append(st.steps,
                         [pos |-> st.pos,
                          searched |-> TrySearch(st.pos, size),
                          head |-> IF TrySearch(st.pos, size)
                                   THEN HashGet(st.hash_table,
                                                hash3(input, st.pos, g), g)
                                   ELSE -1,
                          cands |-> m.cands])]
    IN  CHOOSE r \in UNION {{After(m, ins) : ins \in {Insert(m)}} :
                            m \in {FindMatch(input, size, st.pos,
                                             st.hash_table, st.prev, g)}} :
            TRUE

Lz77Step(g) ==
    /\ pc = "lz77"
    /\ pos < input_size
    /\ \E nx \in {Lz77Iter(data, input_size,
                            [pos |-> pos, tokens |-> tokens,
                             hash_table |-> hash_table, prev |-> prev,
                             steps |-> steps], g)} :
           /\ tokens' = nx.tokens
           /\ hash_table' = nx.hash_table
           /\ prev' = nx.prev
           /\ pos' = nx.pos
           /\ steps' = nx.steps
    /\ UNCHANGED <<data, pc, run, input_size, freq, huff, heap, bb, packs, tok_i,
                   exit_code, out, first>>

\* the loop ends: free(hash_table); free(prev); return tokens
Lz77Return ==
    /\ pc = "lz77"
    /\ pos >= input_size
    /\ pc' = "freq"
    /\ heap' = FreedAll(heap, Lz77Frees)
    /\ UNCHANGED <<data, run, input_size, pos, tokens, hash_table, prev,
                   steps, freq, huff, bb, packs, tok_i, exit_code, out, first>>

(***************************************************************************)
(* deflate_compress: frequencies, header, tokens, end of block, flush.     *)
(***************************************************************************)
CountFrequencies ==
    /\ pc = "freq"
    /\ freq' = Frequencies(tokens)
    /\ pc' = "trees"
    /\ UNCHANGED <<data, run, input_size, pos, tokens, hash_table, prev,
                   steps, huff, heap, bb, packs, tok_i, exit_code, out, first>>

\* build_huffman_tree for both tables, then generate_codes for both trees
BuildHuffmanTrees ==
    /\ pc = "trees"
    /\ \E flip \in BOOLEAN :
          \E lit_tree \in {build_huffman_tree(freq.lit, MAX_CODES, flip)},
             dist_tree \in {build_huffman_tree(freq.dist, DIST_CODES, flip)} :
              huff' = [built |-> TRUE,
                       lit_tree |-> lit_tree,
                       dist_tree |-> dist_tree,
                       lit_codes |-> generate_codes(lit_tree, 0, 0),
                       dist_codes |-> generate_codes(dist_tree, 0, 0)]
    /\ heap' = Got(Got(Freed(Got(heap, "nodes", 2), "nodes", 2),
                       "lit_tree", NodesAllocated(freq.lit, MAX_CODES)),
                   "dist_tree", NodesAllocated(freq.dist, DIST_CODES))
    /\ pc' = "header"
    /\ UNCHANGED <<data, run, input_size, pos, tokens, hash_table, prev,
                   steps, freq, bb, packs, tok_i, exit_code, out, first>>

WriteHeader ==
    /\ pc = "header"
    /\ bb' = WriteAll(init_bitbuffer(buffer_size(input_size)), HeaderCalls)
    /\ packs' = HeaderCalls
    /\ tok_i' = 0
    /\ pc' = "encode"
    /\ heap' = GotAll(heap, {"bb", "bb_output"})
    /\ UNCHANGED <<data, run, input_size, pos, tokens, hash_table, prev,
                   steps, freq, huff, exit_code, out, first>>

\* a faulty variant of EncodeToken: a literal is written with the code
\* generate_codes gave it
EncodeTokenDynamic ==
    /\ pc = "encode"
    /\ tok_i < Len(tokens)
    /\ LET t == tokens[tok_i + 1]
           calls == IF t.literal >= 0
                    THEN << <<huff.lit_codes[t.literal].code,
                              huff.lit_codes[t.literal].length>> >>
                    ELSE TokenCalls(t)
       IN  /\ bb' = WriteAll(bb, calls)
           /\ packs' = packs \o calls
    /\ tok_i' = tok_i + 1
    /\ UNCHANGED <<data, pc, run, input_size, pos, tokens, hash_table, prev,
                   steps, freq, huff, heap, exit_code, out, first>>

EncodeToken ==
    /\ pc = "encode"
    /\ tok_i < Len(tokens)
    /\ bb' = WriteAll(bb, TokenCalls(tokens[tok_i + 1]))
    /\ packs' = packs \o TokenCalls(tokens[tok_i + 1])
    /\ tok_i' = tok_i + 1
    /\ UNCHANGED <<data, pc, run, input_size, pos, tokens, hash_table, prev,
                   steps, freq, huff, heap, exit_code, out, first>>

WriteEndOfBlock ==
    /\ pc = "encode"
    /\ tok_i >= Len(tokens)
    /\ bb' = WriteAll(bb, EndOfBlockCalls)
    /\ packs' = packs \o EndOfBlockCalls
    /\ pc' = "flush"
    /\ UNCHANGED <<data, run, input_size, pos, tokens, hash_table, prev,
                   steps, freq, huff, heap, tok_i, exit_code, out, first>>

FlushBits ==
    /\ pc = "flush"
    /\ bb' = flush_bits(bb)
    /\ pc' = "open_output"
    /\ UNCHANGED <<data, run, input_size, pos, tokens, hash_table, prev,
                   steps, freq, huff, heap, packs, tok_i, exit_code, out, first>>

(***************************************************************************)
(* deflate_compress: writing the output.                                   *)
(***************************************************************************)
\* fopen(output_filename) fails: return 1
OpenOutputFail ==
    /\ pc = "open_output"
    /\ pc' = "exit"
    /\ exit_code' = 1
    /\ heap' = FreeTrees(FreedAll(heap, OutputFailFrees(input_size)))
    /\ UNCHANGED <<data, run, input_size, pos, tokens, hash_table, prev,
                   steps, freq, huff, bb, packs, tok_i, out, first>>

\* fopen succeeds; fwrite(bb->output, 1, bb->pos, output) writes all bb->pos
\* bytes; fclose; return 0
WriteOutput ==
    /\ pc = "open_output"
    /\ out' = [opened |-> TRUE, bytes |-> bb.output, complete |-> TRUE]
    /\ pc' = "exit"
    /\ exit_code' = 0
    /\ heap' = FreeTrees(FreedAll(FreedAll(GotAll(heap, {"output"}),
                                         {"output"}),
                                SuccessFrees(input_size)))
    /\ UNCHANGED <<data, run, input_size, pos, tokens, hash_table, prev,
                   steps, freq, huff, bb, packs, tok_i, first>>

\* the numbers of bytes a failing fwrite of n bytes is taken to have
\* written: none, or all but the last
ShortWrites(n) == {w \in {0, n - 1} : w >= 0 /\ w < n}

\* fopen succeeds; fwrite writes fewer than bb->pos bytes (the device is
\* full, or fails); its return value is not looked at: fclose; return 0
WriteOutputShort ==
    /\ pc = "open_output"
    /\ \E w \in ShortWrites(Len(bb.output)) :
          out' = [opened |-> TRUE, bytes |-> SubSeq(bb.output, 1, w),
                  complete |-> FALSE]
    /\ pc' = "exit"
    /\ exit_code' = 0
    /\ heap' = FreeTrees(FreedAll(FreedAll(GotAll(heap, {"output"}),
                                         {"output"}),
                                SuccessFrees(input_size)))
    /\ UNCHANGED <<data, run, input_size, pos, tokens, hash_table, prev,
                   steps, freq, huff, bb, packs, tok_i, first>>

\* the program is run a second time on the same input file
Reinvoke ==
    /\ pc = "exit"
    /\ run = 1
    /\ run' = 2
    /\ first' = [exit_code |-> exit_code, out |-> out,
                 produced |-> bb.output, tokens |-> tokens, huff |-> huff]
    /\ pc' = "start"
    /\ input_size' = 0
    /\ pos' = 0
    /\ tokens' = << >>
    /\ hash_table' = << >>
    /\ prev' = << >>
    /\ steps' = << >>
    /\ freq' = NoFreq
    /\ huff' = NoHuff
    /\ heap' = NoHeap
    /\ bb' = init_bitbuffer(0)
    /\ packs' = << >>
    /\ tok_i' = 0
    /\ exit_code' = -1
    /\ out' = NoOutput
    /\ UNCHANGED data

Next ==
    \/ OpenInputFail
    \/ OpenInput
    \/ ReadShort
    \/ ReadInput
    \/ \E g \in Garbage : Lz77Step(g)
    \/ Lz77Return
    \/ CountFrequencies
    \/ BuildHuffmanTrees
    \/ WriteHeader
    \/ EncodeToken
    \/ WriteEndOfBlock
    \/ FlushBits
    \/ OpenOutputFail
    \/ WriteOutput
    \/ WriteOutputShort
    \/ Reinvoke

Spec == Init /\ [][Next]_vars

(***************************************************************************)
(* A reference raw-DEFLATE inflate for blocks with fixed Huffman codes     *)
(* (RFC 1951, sections 3.1.1, 3.2.3, 3.2.5 and 3.2.6): the bytes are read  *)
(* as a bit stream, least significant bit of each byte first; Huffman      *)
(* codes arrive most significant code bit first, every other field least   *)
(* significant bit first.  Stored and dynamic blocks, which the compressor *)
(* never announces, are reported as not decodable.                         *)
(***************************************************************************)
StreamOfBytes(bytes) ==
    [i \in 1..(8 * Len(bytes)) |-> BitAt(bytes[((i - 1) \div 8) + 1], (i - 1) % 8)]

\* the n bits after the first i, first bit most significant
RECURSIVE MsbValue(_, _, _)
MsbValue(b, i, n) == IF n = 0 THEN 0 ELSE 2 * MsbValue(b, i, n - 1) + b[i + n]

\* the n bits after the first i, first bit least significant
RECURSIVE LsbValue(_, _, _)
LsbValue(b, i, n) == IF n = 0 THEN 0 ELSE b[i + 1] + 2 * LsbValue(b, i + 1, n - 1)

RfcLengthBase ==
    <<3, 4, 5, 6, 7, 8, 9, 10, 11, 13, 15, 17, 19, 23, 27, 31,
      35, 43, 51, 59, 67, 83, 99, 115, 131, 163, 195, 227, 258>>
RfcLengthExtra ==
    <<0, 0, 0, 0, 0, 0, 0, 0, 1, 1, 1, 1, 2, 2, 2, 2,
      3, 3, 3, 3, 4, 4, 4, 4, 5, 5, 5, 5, 0>>
RfcDistBase ==
    <<1, 2, 3, 4, 5, 7, 9, 13, 17, 25, 33, 49, 65, 97, 129, 193,
      257, 385, 513, 769, 1025, 1537, 2049, 3073, 4097, 6145,
      8193, 12289, 16385, 24577>>
RfcDistExtra ==
    <<0, 0, 0, 0, 1, 1, 2, 2, 3, 3, 4, 4, 5, 5, 6, 6,
      7, 7, 8, 8, 9, 9, 10, 10, 11, 11, 12, 12, 13, 13>>

InflateError == [ok |-> FALSE, out |-> << >>]

\* the literal/length symbol whose fixed code starts after bit i, and the
\* number of bits of the code; sym = -1 when the stream ends inside the code
FixedSymbol(b, i) ==
    IF i + 7 > Len(b) THEN [sym |-> -1, bits |-> 0]
    ELSE LET c7 == MsbValue(b, i, 7) IN
    IF c7 <= 23 THEN [sym |-> 256 + c7, bits |-> 7]
    ELSE IF i + 8 > Len(b) THEN [sym |-> -1, bits |-> 0]
    ELSE LET c8 == MsbValue(b, i, 8) IN
    IF c8 <= 191 THEN [sym |-> c8 - 48, bits |-> 8]
    ELSE IF c8 <= 199 THEN [sym |-> 280 + (c8 - 192), bits |-> 8]
    ELSE IF i + 9 > Len(b) THEN [sym |-> -1, bits |-> 0]
    ELSE [sym |-> 144 + (MsbValue(b, i, 9) - 400), bits |-> 9]

\* length and distance of the pair whose length symbol sym was read, the
\* rest of the pair starting after bit i; ok is FALSE for a symbol or a
\* distance code that is not assigned, or a stream that ends too early
FixedPair(b, i, sym) ==
    IF sym > 285 THEN [ok |-> FALSE, len |-> 0, dist |-> 0, next |-> i]
    ELSE LET lx == RfcLengthExtra[sym - 256]
             j  == i + lx
    IN  IF j + 5 > Len(b) THEN [ok |-> FALSE, len |-> 0, dist |-> 0, next |-> i]
        ELSE LET dcode == MsbValue(b, j, 5) IN
        IF dcode > 29 THEN [ok |-> FALSE, len |-> 0, dist |-> 0, next |-> i]
        ELSE LET dx == RfcDistExtra[dcode + 1] IN
        IF j + 5 + dx > Len(b)
        THEN [ok |-> FALSE, len |-> 0, dist |-> 0, next |-> i]
        ELSE [ok |-> TRUE,
              len |-> RfcLengthBase[sym - 256] + LsbValue(b, i, lx),
              dist |-> RfcDistBase[dcode + 1] + LsbValue(b, j + 5, dx),
              next |-> j + 5 + dx]

\* outp followed by len bytes copied from dist back, byte by byte
CopyBack(outp, len, dist) ==
    outp \o [k \in 1..len |-> outp[Len(outp) - dist + ((k - 1) % dist) + 1]]

\* the symbols of one fixed-Huffman block from bit i on; final is BFINAL
RECURSIVE InflateFixed(_, _, _, _)
\* the blocks from bit i on
RECURSIVE InflateBlocks(_, _, _)
InflateFixed(b, i, outp, final) ==
    LET s == FixedSymbol(b, i) IN
    IF s.sym < 0 THEN InflateError
    ELSE IF s.sym < 256
    THEN InflateFixed(b, i + s.bits, Append(outp, s.sym), final)
    ELSE IF s.sym = 256
    THEN IF final THEN [ok |-> TRUE, out |-> outp]
         ELSE InflateBlocks(b, i + s.bits, outp)
    ELSE LET p == FixedPair(b, i + s.bits, s.sym) IN
         IF ~p.ok \/ p.dist > Len(outp) THEN InflateError
         ELSE InflateFixed(b, p.next, CopyBack(outp, p.len, p.dist), final)

InflateBlocks(b, i, outp) ==
    IF i + 3 > Len(b) THEN InflateError
    ELSE IF LsbValue(b, i + 1, 2) # 1 THEN InflateError
    ELSE InflateFixed(b, i + 3, outp, b[i + 1] = 1)

Inflate(bytes) == InflateBlocks(StreamOfBytes(bytes), 0, << >>)

(***************************************************************************)
(* Helpers of the properties.                                              *)
(***************************************************************************)
\* lz77_compress has returned (or was not called, the input being empty)
Lz77Done == pc \in {"freq", "trees", "header", "encode", "flush",
                    "open_output"}
            \/ (pc = "exit" /\ exit_code = 0)

\* deflate_compress has flushed the bit buffer
Flushed == pc = "open_output" \/ (pc = "exit" /\ exit_code = 0)

IsMatch(t) == t.literal < 0

\* the number of input bytes a token stands for
Advance(t) == IF IsMatch(t) THEN t.length ELSE 1

\* the bytes the first k tokens of toks stand for, replayed in order; a
\* match that reaches before the start of the replayed bytes yields a byte
\* no input has
RECURSIVE Replay(_, _)
Replay(toks, k) ==
    IF k = 0 THEN << >>
    ELSE LET before == Replay(toks, k - 1)
             t == toks[k]
         IN  IF ~IsMatch(t) THEN Append(before, t.literal)
             ELSE IF t.distance >= 1 /\ t.distance <= Len(before)
             THEN CopyBack(before, t.length, t.distance)
             ELSE Append(before, -1)

\* the bits of a sequence of write_bits calls, in stream order
RECURSIVE CallBits(_)
CallBits(calls) ==
    IF calls = << >> THEN << >>
    ELSE LsbBits(calls[1][1], calls[1][2]) \o CallBits(Tail(calls))

\* the write_bits calls of the first k tokens of toks
RECURSIVE AllTokenCalls(_, _)
AllTokenCalls(toks, k) ==
    IF k = 0 THEN << >>
    ELSE AllTokenCalls(toks, k - 1) \o TokenCalls(toks[k])

Zeros(n) == [i \in 1..n |-> 0]

CeilDiv8(n) == (n + 7) \div 8

(***************************************************************************)
(* Properties of the compressor.                                           *)
(***************************************************************************)

\* C1: a standards-conformant raw-DEFLATE inflate of the bytes
\* deflate_compress produces yields exactly the input, for every input.
RoundTrip ==
    Flushed => Inflate(bb.output) = [ok |-> TRUE, out |-> data]

\* C2: the tokens cover the input exactly once, left to right: token k
\* starts where token k-1 ended, a literal advances by 1 and a match by its
\* length, the advances sum to the position reached (the input size once
\* lz77_compress has returned), and replaying the tokens reproduces the
\* input up to that position.
Coverage ==
    /\ Len(steps) = Len(tokens)
    /\ \A k \in 1..Len(tokens) :
          steps[k].pos = IF k = 1 THEN 0
                         ELSE steps[k - 1].pos + Advance(tokens[k - 1])
    /\ tokens # << >> =>
          pos = steps[Len(tokens)].pos + Advance(tokens[Len(tokens)])
    /\ tokens # << >> => pos <= input_size
    /\ Replay(tokens, Len(tokens)) = SubSeq(data, 1, pos)
    /\ Lz77Done => pos = Len(data)

CoverageWitness ==
    /\ pc = "freq"
    /\ Len(data) = MaxLen
    /\ \E k \in 1..Len(tokens) :
          /\ IsMatch(tokens[k])
          /\ tokens[k].distance < tokens[k].length
    /\ \E k \in 1..Len(tokens) : ~IsMatch(tokens[k]) /\ k > 2

EmptyInput ==
    data = << >> =>
        /\ tokens = << >>
        /\ Flushed => bb.output = <<3, 0>>
        /\ (pc = "exit" /\ out.complete) => out.bytes = <<3, 0>>

EmptyInputWitness ==
    data = << >> /\ pc = "exit" /\ exit_code = 0 /\ out.complete

\* C5: for "ABCDEFABCDEF" lz77_compress emits the literals A, B, C, D, E, F
\* and then the match (length 6, distance 6), and nothing else.
TieBreakTokens ==
    <<[literal |-> 65, length |-> 0, distance |-> 0],
      [literal |-> 66, length |-> 0, distance |-> 0],
      [literal |-> 67, length |-> 0, distance |-> 0],
      [literal |-> 68, length |-> 0, distance |-> 0],
      [literal |-> 69, length |-> 0, distance |-> 0],
      [literal |-> 70, length |-> 0, distance |-> 0],
      [literal |-> -1, length |-> 6, distance |-> 6]>>

TieBreakExample ==
    data = TieBreakInput =>
        /\ Len(tokens) <= 7
        /\ tokens = SubSeq(TieBreakTokens, 1, Len(tokens))
        /\ Lz77Done => tokens = TieBreakTokens

TieBreakExampleWitness ==
    data = TieBreakInput /\ pc = "freq" /\ Len(tokens) = 7

\* C6: no match is emitted, and no match search is made, at a position with
\* fewer than 3 bytes remaining; an input of 1 or 2 bytes gives one literal
\* per byte.
Boundary ==
    /\ \A k \in 1..Len(tokens) :
          steps[k].pos + 3 > input_size =>
              /\ ~IsMatch(tokens[k])
              /\ ~steps[k].searched
              /\ steps[k].cands = << >>
    /\ (Lz77Done /\ Len(data) \in {1, 2}) =>
          /\ Len(tokens) = Len(data)
          /\ \A k \in 1..Len(tokens) :
                /\ tokens[k] = [literal |-> data[k], length |-> 0,
                                distance |-> 0]
                /\ ~steps[k].searched

BoundaryWitness ==
    /\ pc = "freq"
    /\ Len(data) = 2
    /\ Len(tokens) = 2
    /\ data[1] # data[2]

\* C7: a second run of the compressor on the same input produces the same
\* bytes as the first, whatever the memory it allocates holds; the files
\* are equal when both were written in full.
Determinism ==
    (run = 2 /\ Flushed /\ first.exit_code = 0) =>
        /\ bb.output = first.produced
        /\ (out.complete /\ first.out.complete) => out = first.out

DeterminismWitness ==
    /\ run = 2 /\ pc = "exit" /\ exit_code = 0 /\ first.exit_code = 0
    /\ out.complete /\ first.out.complete
    /\ Len(data) = MaxLen
    /\ \E k \in 1..Len(tokens) : IsMatch(tokens[k]) /\ Len(steps[k].cands) > 1

\* C10: the output is one block: the bit 1, the bits 1, 0 (the value 1,
\* least significant bit first), the bits of the tokens' codes in token
\* order, seven 0 bits, and then only 0 bits up to the end of the last
\* byte; a file written in full holds these bytes and nothing else.
Framing ==
    Flushed =>
        LET block == <<1>> \o <<1, 0>>
                     \o CallBits(AllTokenCalls(tokens, Len(tokens)))
                     \o Zeros(7)
            stream == StreamOfBytes(bb.output)
        IN  /\ Len(bb.output) = CeilDiv8(Len(block))
            /\ stream = block \o Zeros(Len(stream) - Len(block))
            /\ (pc = "exit" /\ out.complete) => out.bytes = bb.output

FramingWitness ==
    /\ pc = "exit" /\ exit_code = 0 /\ out.complete
    /\ \E k \in 1..Len(tokens) : IsMatch(tokens[k])
    /\ \E k \in 1..Len(tokens) : ~IsMatch(tokens[k]) /\ tokens[k].literal > 143
    /\ (Len(CallBits(packs)) % 8) # 0

(***************************************************************************)
(* The BitWriter on its own: a buffer as deflate_compress creates it for   *)
(* a small input, any sequence of at most MaxWrites write_bits calls that  *)
(* keep the precondition bits < 2^count, then flush_bits.                  *)
(***************************************************************************)
\* bit counts of the calls: one bit, a 7-bit and a 9-bit code, 13 extra bits
BWCounts == {1, 7, 9, 13}

\* values of n bits: all zeros, all ones, 1, and the pattern ...0101
BWValues(n) == {0, 1, (2 ^ n) - 1, ((2 ^ n) - 1) \div 3}

InitBW ==
    /\ data = << >>
    /\ run = 1
    /\ first = NotRun
    /\ pc = "bw"
    /\ input_size = 0
    /\ pos = 0
    /\ tokens = << >>
    /\ hash_table = << >>
    /\ prev = << >>
    /\ steps = << >>
    /\ freq = NoFreq
    /\ huff = NoHuff
    /\ heap = NoHeap
    /\ bb = init_bitbuffer(buffer_size(0))
    /\ packs = << >>
    /\ tok_i = 0
    /\ exit_code = -1
    /\ out = NoOutput

BWWrite ==
    /\ pc = "bw"
    /\ Len(packs) < MaxWrites
    /\ \E n \in BWCounts : \E v \in BWValues(n) :
          /\ bb' = write_bits(bb, v, n)
          /\ packs' = Append(packs, <<v, n>>)
    /\ UNCHANGED <<data, pc, run, input_size, pos, tokens, hash_table, prev,
                   steps, freq, huff, heap, tok_i, exit_code, out, first>>

BWFlush ==
    /\ pc = "bw"
    /\ bb' = flush_bits(bb)
    /\ pc' = "bw_flushed"
    /\ UNCHANGED <<data, run, input_size, pos, tokens, hash_table, prev,
                   steps, freq, huff, heap, packs, tok_i, exit_code, out, first>>

NextBW == BWWrite \/ BWFlush

SpecBW == InitBW /\ [][NextBW]_vars

\* bit i of the stream: bit (i mod 8) of output byte (i div 8), or, for a
\* bit not yet stored, its place in the accumulator
StreamBit(i) ==
    IF i < 8 * Len(bb.output)
    THEN BitAt(bb.output[(i \div 8) + 1], i % 8)
    ELSE bb.bits[i - 8 * Len(bb.output)]

\* the number of bits of the calls made
TotalBits == Len(CallBits(packs))

\* C8: each write_bits(value, n) with value < 2^n appends exactly the n low
\* bits of value, least significant first: after the calls made so far the
\* stream holds exactly their bits in call order (bit k of a value at
\* place T + k, T the bits written before its call), stream bit i being
\* bit (i mod 8) of output byte (i div 8); a later call changes none of them.
PackLsbFirst ==
    /\ pc = "bw" =>
          /\ 8 * Len(bb.output) + bb.count = TotalBits
          /\ \A i \in 0..(TotalBits - 1) : StreamBit(i) = CallBits(packs)[i + 1]
    /\ pc = "bw_flushed" =>
          /\ 8 * Len(bb.output) >= TotalBits
          /\ \A i \in 0..(TotalBits - 1) :
                BitAt(bb.output[(i \div 8) + 1], i % 8) = CallBits(packs)[i + 1]

PackLsbFirstWitness ==
    /\ pc = "bw"
    /\ Len(packs) = 2
    /\ packs[1] = <<1, 7>>
    /\ packs[2] = <<2730, 13>>
    /\ Len(bb.output) = 2
    /\ bb.count = 4

\* C9: after every write_bits call 0..7 bits are pending and no bit above
\* them is set in the accumulator; flush_bits stores one more byte exactly
\* when a bit is pending, the unused high bits of that byte are 0, and
\* after the flush the output has ceil(total bits / 8) bytes.
BitBufferInvariant ==
    /\ pc \in {"bw", "bw_flushed"} =>
          /\ bb.count \in 0..7
          /\ \A k \in bb.count..31 : bb.bits[k] = 0
    /\ pc = "bw_flushed" =>
          /\ Len(bb.output) = ((TotalBits - bb.count) \div 8)
                              + (IF bb.count > 0 THEN 1 ELSE 0)
          /\ Len(bb.output) = CeilDiv8(TotalBits)
          /\ bb.count > 0 => bb.output[Len(bb.output)] < 2 ^ bb.count

BitBufferInvariantWitness ==
    /\ pc = "bw_flushed"
    /\ Len(packs) = MaxWrites
    /\ bb.count = 3
    /\ Len(bb.output) = 3
    /\ bb.output[3] = 7

(***************************************************************************)
(* Exit code and output file.                                              *)
(***************************************************************************)

\* C11: deflate_compress returns 0 when the whole input was compressed and
\* written, and 1 when the input file cannot be opened or read in full, or
\* the output file cannot be opened or cannot be written: at the exit the
\* code is 0 if the output file was opened and written in full, and 1
\* otherwise.
ExitCode ==
    pc = "exit" =>
        IF out.opened /\ out.complete THEN exit_code = 0 ELSE exit_code = 1

\* C12: a run ends either with exit code 0 and the complete compressed
\* byte sequence in the output file, or with a non-zero exit code and no
\* output byte written.
NoPartialResult ==
    pc = "exit" =>
        \/ exit_code = 0 /\ out.opened /\ out.bytes = bb.output
        \/ exit_code # 0 /\ out.bytes = << >>

(***************************************************************************)
(* The encoding loop on its own: the bit buffer after the block header, a  *)
(* token stream of one token (any literal, any length with some distances, *)
(* any distance with some lengths), then the loop body, the end-of-block   *)
(* code and the flush, as deflate_compress runs them.                      *)
(***************************************************************************)
\* distances without extra bits, with one, and the farthest
DistSamples == {1, 5, MAX_DIST}

\* the shortest length
LenSamples == {MIN_MATCH}

UnitTokens ==
    {[literal |-> b, length |-> 0, distance |-> 0] : b \in 0..255}
    \cup {MatchToken(L, D) : L \in MIN_MATCH..MAX_MATCH, D \in DistSamples}
    \cup {MatchToken(L, D) : L \in LenSamples, D \in 1..MAX_DIST}

InitCodes ==
    /\ data = << >>
    /\ run = 1
    /\ first = NotRun
    /\ pc = "encode"
    /\ input_size = 0
    /\ pos = 0
    /\ \E t \in UnitTokens : tokens = <<t>>
    /\ hash_table = << >>
    /\ prev = << >>
    /\ steps = << >>
    /\ freq = NoFreq
    /\ huff = NoHuff
    /\ heap = NoHeap
    /\ bb = WriteAll(init_bitbuffer(buffer_size(0)), HeaderCalls)
    /\ packs = HeaderCalls
    /\ tok_i = 0
    /\ exit_code = -1
    /\ out = NoOutput

NextCodes == EncodeToken \/ WriteEndOfBlock

SpecCodes == InitCodes /\ [][NextCodes]_vars

\* the token of the stream has been encoded
Encoded == Len(tokens) = 1 /\ tok_i = 1

\* the write_bits calls made for the token, in order
CallsOfToken == SubSeq(packs, Len(HeaderCalls) + 1,
                       Len(packs) - (IF pc = "flush" THEN 1 ELSE 0))

\* RFC 1951, 3.2.6: the fixed Huffman code of literal/length symbol s
RfcFixedCode(s) ==
    IF s <= 143 THEN 48 + s
    ELSE IF s <= 255 THEN 400 + (s - 144)
    ELSE IF s <= 279 THEN s - 256
    ELSE 192 + (s - 280)

\* and the number of its bits
RfcFixedBits(s) ==
    IF s <= 143 THEN 8 ELSE IF s <= 255 THEN 9 ELSE IF s <= 279 THEN 7 ELSE 8

\* the n-bit value v with its bits in the opposite order
RECURSIVE ReverseBits(_, _)
ReverseBits(v, n) ==
    IF n = 0 THEN 0
    ELSE (v % 2) * (2 ^ (n - 1)) + ReverseBits(v \div 2, n - 1)

\* the literal/length symbol of a token
SymbolOf(t) == IF IsMatch(t) THEN get_length_code(t.length).code ELSE t.literal

\* C13: the constant the encoder packs for a literal/length symbol s is the
\* bit-reversal of the RFC 1951 fixed Huffman code of s, in the code's
\* number of bits (for the symbols of tokens and for the end-of-block
\* symbol 256).
PreReversedConstants ==
    /\ Encoded =>
          LET s == SymbolOf(tokens[1]) IN
          CallsOfToken[1] =
              <<ReverseBits(RfcFixedCode(s), RfcFixedBits(s)), RfcFixedBits(s)>>
    /\ pc = "flush" =>
          packs[Len(packs)] =
              <<ReverseBits(RfcFixedCode(256), RfcFixedBits(256)),
                RfcFixedBits(256)>>

\* C14: the encoder makes exactly these write_bits calls for a token, in
\* this order: for a literal b <= 143 (0x30 + b, 8), for a literal b >= 144
\* (0x190 + (b - 144), 9); for a match the length code as (len_code - 256, 7)
\* if len_code <= 279 and (0xC0 + (len_code - 280), 8) otherwise, then
\* (len_extra_value, len_extra_bits) only if len_extra_bits > 0, then the
\* 5-bit value whose bit j is bit 4 - j of dist_code, then
\* (dist_extra_value, dist_extra_bits) only if dist_extra_bits > 0.
PerTokenEncoding ==
    Encoded =>
        LET t == tokens[1]
            lc == get_length_code(t.length)
            dc == get_distance_code(t.distance)
            rd == CHOOSE v \in 0..31 :
                      \A j \in 0..4 : BitAt(v, j) = BitAt(dc.code, 4 - j)
        IN  CallsOfToken =
              IF ~IsMatch(t)
              THEN IF t.literal <= 143 THEN << <<48 + t.literal, 8>> >>
                   ELSE << <<400 + (t.literal - 144), 9>> >>
              ELSE << IF lc.code <= 279 THEN <<lc.code - 256, 7>>
                      ELSE <<192 + (lc.code - 280), 8>> >>
                   \o (IF lc.extra_bits > 0
                       THEN << <<lc.extra_value, lc.extra_bits>> >> ELSE << >>)
                   \o << <<rd, 5>> >>
                   \o (IF dc.extra_bits > 0
                       THEN << <<dc.extra_value, dc.extra_bits>> >> ELSE << >>)

\* length 130 (code 280, 4 extra bits) at distance 5 (code 4, 1 extra bit)
PerTokenEncodingWitness ==
    /\ Encoded
    /\ tokens[1] = MatchToken(130, 5)
    /\ CallsOfToken = << <<192, 8>>, <<15, 4>>, <<4, 5>>, <<0, 1>> >>

\* C15: for a length L in 3..258 get_length_code finds the one index i in
\* 0..28 with base[i] <= L and (i = 28 or L < base[i + 1]), and returns
\* code = 257 + i in 257..285, extra_bits = extra[i] and
\* extra_value = L - base[i] with 0 <= extra_value < 2^extra_bits; base and
\* extra are the RFC 1951 tables.
LengthLookup ==
    /\ length_base = RfcLengthBase
    /\ length_extra = RfcLengthExtra
    /\ \A k \in 1..Len(tokens) :
          IsMatch(tokens[k]) =>
              LET L == tokens[k].length
                  c == get_length_code(L)
                  hit == {i \in 0..28 :
                            /\ RfcLengthBase[i + 1] <= L
                            /\ (i = 28 \/ L < RfcLengthBase[i + 2])}
              IN  /\ Cardinality(hit) = 1
                  /\ \A i \in hit :
                        /\ c.code = 257 + i
                        /\ c.extra_bits = RfcLengthExtra[i + 1]
                        /\ c.extra_value = L - RfcLengthBase[i + 1]
                  /\ 257 <= c.code /\ c.code <= 285
                  /\ 0 <= c.extra_value /\ c.extra_value < 2 ^ c.extra_bits
                  /\ Encoded =>
                        CallsOfToken[1] = LengthCodeCall(c.code)

\* the longest length: the last index, code 285, no extra bits
LengthLookupWitness ==
    /\ Encoded
    /\ tokens[1] = MatchToken(MAX_MATCH, 1)
    /\ get_length_code(MAX_MATCH) =
          [code |-> 285, extra_bits |-> 0, extra_value |-> 0]
    /\ CallsOfToken = << <<197, 8>>, <<0, 5>> >>

\* C16: for a distance D in 1..32768 get_distance_code finds the one index
\* i in 0..29 with base[i] <= D and (i = 29 or D < base[i + 1]), and returns
\* code = i, extra_bits = extra[i] and extra_value = D - base[i] with
\* 0 <= extra_value < 2^extra_bits; base and extra are the RFC 1951 tables.
DistanceLookup ==
    /\ dist_base = RfcDistBase
    /\ dist_extra = RfcDistExtra
    /\ \A k \in 1..Len(tokens) :
          IsMatch(tokens[k]) =>
              LET D == tokens[k].distance
                  c == get_distance_code(D)
                  hit == {i \in 0..29 :
                            /\ RfcDistBase[i + 1] <= D
                            /\ (i = 29 \/ D < RfcDistBase[i + 2])}
              IN  /\ Cardinality(hit) = 1
                  /\ \A i \in hit :
                        /\ c.code = i
                        /\ c.extra_bits = RfcDistExtra[i + 1]
                        /\ c.extra_value = D - RfcDistBase[i + 1]
                  /\ 0 <= c.extra_value /\ c.extra_value < 2 ^ c.extra_bits

\* the farthest distance: the last index, 13 extra bits, all of them 1
DistanceLookupWitness ==
    /\ Encoded
    /\ tokens[1] = MatchToken(MIN_MATCH, MAX_DIST)
    /\ get_distance_code(MAX_DIST) =
          [code |-> 29, extra_bits |-> 13, extra_value |-> 8191]
    /\ CallsOfToken = << <<1, 7>>, <<23, 5>>, <<8191, 13>> >>

(***************************************************************************)
(* The match search.                                                       *)
(***************************************************************************)
\* the most bytes a match at p may have
Cap(p) == Min(258, input_size - p)

\* the number of bytes S[m..] and S[p..] have in common, at most Cap(p)
CommonPrefix(m, p) ==
    LET same(j) == data[m + j + 1] = data[p + j + 1] IN
    CHOOSE len \in 0..Cap(p) :
        /\ \A j \in 0..(len - 1) : same(j)
        /\ len = Cap(p) \/ ~same(len)

MaxOf(S) == CHOOSE x \in S : \A y \in S : y <= x

MinOf(S) == CHOOSE x \in S : \A y \in S : x <= y

\* the candidates the search of token k compared
Examined(k) == {steps[k].cands[i] : i \in 1..Len(steps[k].cands)}

\* the earlier positions whose three bytes hash as those at p
SameHash(p) ==
    {m \in 0..(p - 1) : hash3(data, m, 0) = hash3(data, p, 0)}

\* C17: at a token start p with p + 3 <= size the emitted length is the
\* greatest common-prefix length (capped at min(258, size - p)) over the
\* candidates examined at p, a literal being emitted exactly when that is
\* below 3; and when fewer than 128 earlier positions share the hash of
\* S[p..p+2], all within distance 32768, it is the greatest over all
\* earlier positions of the window.
LongestMatch ==
    \A k \in 1..Len(tokens) :
        steps[k].pos + 3 <= input_size =>
            LET p == steps[k].pos
                best == MaxOf({0} \cup {CommonPrefix(m, p) : m \in Examined(k)})
                window == {m \in 0..(p - 1) : p - m <= 32768}
                all == MaxOf({0} \cup {CommonPrefix(m, p) : m \in window})
            IN  /\ steps[k].searched
                /\ IsMatch(tokens[k]) <=> best >= 3
                /\ IsMatch(tokens[k]) => tokens[k].length = best
                /\ (/\ Cardinality(SameHash(p)) < 128
                    /\ \A m \in SameHash(p) : p - m <= 32768) =>
                       /\ IsMatch(tokens[k]) <=> all >= 3
                       /\ IsMatch(tokens[k]) => tokens[k].length = all

\* "ABCXABCYABCX": the farther, longer candidate wins at position 8
LongestMatchWitness ==
    /\ pc = "freq"
    /\ data = LongerFartherInput
    /\ steps[Len(steps)].pos = 8
    /\ steps[Len(steps)].cands = <<4, 0>>
    /\ CommonPrefix(4, 8) = 3
    /\ tokens[Len(tokens)] = MatchToken(4, 8)

\* C18: the distance of a match token is the smallest distance among the
\* candidates examined at its position whose common-prefix length equals
\* the emitted length: in the order of examination, every candidate before
\* the one chosen is strictly shorter and none after it is longer.
NearestWins ==
    \A k \in 1..Len(tokens) :
        IsMatch(tokens[k]) =>
            LET p == steps[k].pos
                c == steps[k].cands
                len == tokens[k].length
                equal == {i \in 1..Len(c) : CommonPrefix(c[i], p) = len}
            IN  /\ equal # {}
                /\ tokens[k].distance = MinOf({p - c[i] : i \in equal})
                /\ \A i \in 1..Len(c) :
                      /\ p - c[i] < tokens[k].distance =>
                            CommonPrefix(c[i], p) < len
                      /\ p - c[i] > tokens[k].distance =>
                            CommonPrefix(c[i], p) <= len
                /\ \A i \in 1..Len(c) : \A j \in 1..Len(c) :
                      (i < j /\ p - c[j] = tokens[k].distance) =>
                          CommonPrefix(c[i], p) < len

\* "ABCXABCYABCZ": two candidates of length 3 at position 8, the nearer wins
NearestWinsWitness ==
    /\ pc = "freq"
    /\ data = EqualCandidatesInput
    /\ \E k \in 1..Len(tokens) :
          /\ steps[k].pos = 8
          /\ steps[k].cands = <<4, 0>>
          /\ tokens[k] = MatchToken(3, 4)
    /\ CommonPrefix(4, 8) = 3 /\ CommonPrefix(0, 8) = 3

\* the link the search of token k would have followed next
NextLink(k) ==
    IF steps[k].cands = << >> THEN steps[k].head
    ELSE prev[steps[k].cands[Len(steps[k].cands)]]

\* C19: the search of a token examines at most 128 candidates, the first
\* being hash_table[hash] and each next one prev[] of the one before; it
\* examines fewer only when the chain has ended (or left the window).
BoundedSearch ==
    \A k \in 1..Len(tokens) :
        LET c == steps[k].cands IN
        /\ Len(c) <= 128
        /\ ~steps[k].searched => c = << >>
        /\ steps[k].searched =>
              /\ c # << >> => c[1] = steps[k].head
              /\ \A i \in 1..(Len(c) - 1) : c[i + 1] = prev[c[i]]
              /\ Len(c) < 128 =>
                    \/ NextLink(k) < 0
                    \/ steps[k].pos - NextLink(k) > 32768

\* the run of 262 bytes: 128 of the 259 earlier positions are examined at
\* position 259, and the chain of position 1 ends after one candidate
BoundedSearchWitness ==
    /\ pc = "freq"
    /\ Len(data) = 262
    /\ \E k \in 1..Len(tokens) :
          /\ Len(steps[k].cands) = 128
          /\ Cardinality(SameHash(steps[k].pos)) > 128
          /\ NextLink(k) >= 0
    /\ \E k \in 1..Len(tokens) :
          Len(steps[k].cands) = 1 /\ NextLink(k) = -1

\* C20: while lz77_compress runs, every position in hash_table is below
\* pos, prev[] is written only at positions below pos and links each to a
\* position below it; every candidate examined for a token is below the
\* token's position, and every match has a distance of at least 1.
Causality ==
    /\ pc = "lz77" =>
          /\ \A h \in DOMAIN hash_table :
                hash_table[h] >= 0 /\ hash_table[h] < pos
          /\ \A i \in DOMAIN prev :
                prev[i] # UNINIT => (i < pos /\ prev[i] < i)
    /\ \A k \in 1..Len(tokens) :
          /\ steps[k].head < steps[k].pos
          /\ \A m \in Examined(k) : 0 <= m /\ m < steps[k].pos
          /\ IsMatch(tokens[k]) => tokens[k].distance >= 1

\* a search is about to run after a match whose positions were inserted
CausalityWitness ==
    /\ pc = "lz77"
    /\ pos + 3 <= input_size
    /\ tokens # << >> /\ IsMatch(tokens[Len(tokens)])
    /\ HashGet(hash_table, hash3(data, pos, 0), 0) = pos - 1
    /\ prev[pos - 1] >= 0

(***************************************************************************)
(* The hash chains.                                                        *)
(***************************************************************************)
\* the positions inserted so far: the cells of prev[] that were written
Inserted == {q \in DOMAIN prev : prev[q] # UNINIT}

\* the hash of the three bytes at an inserted position
HashAt(q) == hash3(data, q, 0)

\* C21: for every hash value h, hash_table[h] is the greatest inserted
\* position whose three bytes hash to h (and the cell is unwritten when
\* there is none); for every inserted position q, prev[q] is the greatest
\* inserted position below q with the same hash (no inserted position
\* between the two has that hash), or -1 when there is none; every
\* candidate a search compared, whose prev[] cell the search then read,
\* was inserted.
HashChainStructure ==
    /\ \A h \in DOMAIN hash_table :
          /\ hash_table[h] \in Inserted
          /\ HashAt(hash_table[h]) = h
          /\ \A q \in Inserted : q > hash_table[h] => HashAt(q) # h
    /\ \A q \in Inserted :
          /\ HashAt(q) \in DOMAIN hash_table
          /\ prev[q] = -1 \/ prev[q] \in Inserted
          /\ prev[q] < q
          /\ prev[q] # -1 => HashAt(prev[q]) = HashAt(q)
          /\ \A r \in Inserted :
                (prev[q] < r /\ r < q) => HashAt(r) # HashAt(q)
    /\ \A k \in 1..Len(tokens) :
          /\ Examined(k) \subseteq Inserted
          /\ steps[k].searched => steps[k].head \in Inserted \cup {-1}

\* a chain of three positions, two of which differ in their first byte
HashChainStructureWitness ==
    /\ pc = "lz77"
    /\ \E q \in Inserted :
          /\ prev[q] >= 0
          /\ prev[prev[q]] >= 0
          /\ data[q + 1] # data[prev[q] + 1]
          /\ hash_table[HashAt(q)] = q
    /\ \E q \in Inserted : prev[q] = -1

\* C22: once the tokens emitted cover the positions below pos, exactly the
\* positions q < pos with q + 3 <= size have been inserted, each linked to
\* a position below it (they were inserted in increasing order), none with
\* q + 3 > size; pos has advanced by the length of each match and by 1 for
\* each literal.
CoveredInserted ==
    /\ Inserted = {q \in 0..(pos - 1) : q + 3 <= input_size}
    /\ \A q \in Inserted : prev[q] < q
    /\ \A h \in DOMAIN hash_table : hash_table[h] + 3 <= input_size
    /\ \A k \in 1..Len(tokens) :
          (IF k < Len(tokens) THEN steps[k + 1].pos ELSE pos)
              = steps[k].pos + Advance(tokens[k])

\* a match that reaches the end of the input: its last two positions, and
\* only they, are not inserted
CoveredInsertedWitness ==
    /\ pc = "lz77"
    /\ pos = input_size
    /\ input_size = MaxLen
    /\ IsMatch(tokens[Len(tokens)])
    /\ tokens[Len(tokens)].length >= 3
    /\ Inserted = 0..(input_size - 3)

(***************************************************************************)
(* The calls the encoder makes to write_bits.                              *)
(***************************************************************************)

\* C23: every write_bits(value, n) call of the encoder has value < 2^n and
\* 1 <= n <= 13; at most 7 bits are pending between calls, no bit above
\* them is set in the accumulator, and the stream holds exactly the bits
\* of the calls, in call order: no bit is lost and none corrupts a later
\* code.
PackPrecondition ==
    /\ \A i \in 1..Len(packs) :
          /\ 0 <= packs[i][1] /\ packs[i][1] < 2 ^ packs[i][2]
          /\ 1 <= packs[i][2] /\ packs[i][2] <= 13
    /\ bb.count \in 0..7
    /\ \A k \in bb.count..31 : bb.bits[k] = 0
    /\ 8 * Len(bb.output) + bb.count = TotalBits
    /\ \A i \in 0..(TotalBits - 1) : StreamBit(i) = CallBits(packs)[i + 1]

\* the literal 255: the greatest 9-bit value, then the end-of-block code
PackPreconditionWitness ==
    /\ pc = "flush"
    /\ tokens[1].literal = 255
    /\ packs = << <<1, 1>>, <<1, 2>>, <<511, 9>>, <<0, 7>> >>
    /\ Len(bb.output) = 2
    /\ bb.count = 3

(***************************************************************************)
(* The Huffman trees and the output.                                       *)
(***************************************************************************)

\* C24: the frequency tables, the Huffman trees and the generated codes do
\* not influence the output: a second run whose token stream equals the
\* first run's produces the same bytes, whatever trees and codes
\* build_huffman_tree and generate_codes gave either run.
HuffmanUnused ==
    (run = 2 /\ Flushed /\ first.exit_code = 0 /\ tokens = first.tokens) =>
        /\ first.huff.built /\ huff.built
        /\ bb.output = first.produced

\* two runs on the same input whose literal codes differ
HuffmanUnusedWitness ==
    /\ run = 2 /\ Flushed /\ first.exit_code = 0
    /\ tokens = first.tokens
    /\ \E k \in 1..Len(tokens) :
          /\ ~IsMatch(tokens[k])
          /\ huff.lit_codes[tokens[k].literal]
               # first.huff.lit_codes[tokens[k].literal]
    /\ huff.lit_tree # first.huff.lit_tree
    /\ bb.output = first.produced

(***************************************************************************)
(* The token buffer.                                                       *)
(***************************************************************************)

\* C25: lz77_compress never has more tokens than bytes covered, so the
\* index it writes stays below the 2 * size entries allocated; for an
\* input of n >= 1 bytes it returns at least 1 and at most n tokens, and
\* exactly n when, and only when, every token is a literal.
TokenCount ==
    /\ Len(tokens) <= pos
    /\ (pc = "lz77" /\ pos < input_size) => Len(tokens) < 2 * input_size
    /\ (Lz77Done /\ input_size >= 1) =>
          /\ 1 <= Len(tokens)
          /\ Len(tokens) <= input_size
          /\ Len(tokens) = input_size
                <=> \A k \in 1..Len(tokens) : ~IsMatch(tokens[k])

\* a match of three bytes among literals
TokenCountWitness ==
    /\ pc = "freq"
    /\ input_size = MaxLen
    /\ Len(tokens) = MaxLen - 2
    /\ \E k \in 1..Len(tokens) : IsMatch(tokens[k]) /\ tokens[k].length = 3

(***************************************************************************)
(* Buffers and files.                                                      *)
(***************************************************************************)

\* C26: nothing is released that was not obtained, or twice; when
\* deflate_compress returns, on any path, every buffer and HuffNode it
\* allocated has been freed and every file it opened has been closed.
ResourceRelease ==
    /\ \A r \in Resources : heap[r].freed <= heap[r].got
    /\ \A r \in Resources \ {"nodes", "lit_tree", "dist_tree"} :
          heap[r].got <= 1
    /\ pc = "exit" => \A r \in Resources : heap[r].freed = heap[r].got

\* the output file cannot be opened: everything allocated by then is freed
ResourceReleaseWitness ==
    /\ pc = "exit"
    /\ exit_code = 1
    /\ heap["tokens"] = [got |-> 1, freed |-> 1]
    /\ heap["bb_output"] = [got |-> 1, freed |-> 1]
    /\ heap["lit_tree"].got >= 5
    /\ heap["dist_tree"].got >= 2
    /\ heap["input"] = [got |-> 1, freed |-> 1]
    /\ heap["output"].got = 0

(***************************************************************************)
(* The size of the output.                                                 *)
(***************************************************************************)
\* the number of bits of a sequence of write_bits calls
RECURSIVE CallsWidth(_, _)
CallsWidth(calls, k) ==
    IF k = 0 THEN 0 ELSE calls[k][2] + CallsWidth(calls, k - 1)

\* the input sizes for which the capacity is compared with the bound
MaxSize == 2048

\* whether the bit buffer exists
BufferLive == pc \in {"encode", "flush", "open_output"}

\* C27: the bits packed for an input of n bytes are at most 9*n + 10 (each
\* token at most 9 bits per byte it covers, 3 bits of header, 7 of end of
\* block), so the bytes stored never exceed the initial capacity
\* max(2*n, 1024): the capacity is never doubled, and the byte flush_bits
\* stores has a place inside the buffer.
OutputSizeBound ==
    BufferLive =>
        /\ \A k \in 1..tok_i :
              CallsWidth(TokenCalls(tokens[k]), Len(TokenCalls(tokens[k])))
                  <= 9 * Advance(tokens[k])
        /\ CallsWidth(packs, Len(packs)) <= 9 * input_size + 10
        /\ pc # "open_output" =>
              8 * Len(bb.output) + bb.count = CallsWidth(packs, Len(packs))
        /\ (pc = "encode" /\ tok_i = 0) =>
              \A n \in 0..MaxSize : CeilDiv8(9 * n + 10) <= buffer_size(n)
        /\ bb.capacity = buffer_size(input_size)
        /\ Len(bb.output) <= bb.capacity
        /\ (pc = "flush" /\ FlushNeeded(bb)) => Len(bb.output) < bb.capacity

\* bytes that each take 9 bits: the bound 9*n + 10 is met exactly, and
\* flush_bits has a byte to store
OutputSizeBoundWitness ==
    /\ pc = "flush"
    /\ input_size >= 2
    /\ CallsWidth(packs, Len(packs)) = 9 * input_size + 10
    /\ FlushNeeded(bb)
    /\ bb.capacity = MIN_BUFFER

(***************************************************************************)
(* lz77_compress on inputs longer than the window.                         *)
(***************************************************************************)
\* the period of the filler of FarInput
Period == 1032

\* the offset of the second "ABC" of FarInput
NearAbc == 303

\* byte i of the filler: the groups (1, 100 + g \div 32, 192 + g % 32),
\* g = 0, 1, .. , repeated with period Period; no three bytes occur twice
\* within a period, so that the first period is all literals and the rest
\* is matched at distance Period, with short hash chains
FillerByte(i) ==
    LET j == i % Period
        g == j \div 3
    IN  IF j % 3 = 0 THEN 1
        ELSE IF j % 3 = 1 THEN 100 + (g \div 32)
        ELSE 192 + (g % 32)

\* "ABC" at 0, at NearAbc and at MAX_DIST + 1, filler between: the last
\* "ABC" has the second one in its window and the first one just outside
FarInput ==
    << >> \o
    [i \in 1..(MAX_DIST + 4) |->
        IF \E base \in {0, NearAbc, MAX_DIST + 1} :
               i - 1 \in base..(base + 2)
        THEN 65 + ((i - 1 - (IF i - 1 >= MAX_DIST + 1 THEN MAX_DIST + 1
                             ELSE IF i - 1 >= NearAbc THEN NearAbc ELSE 0)))
        ELSE FillerByte(i - 1)]

\* the iterations of while (pos < size) until pos reaches stop, at most n
\* of them (n is halved so that the evaluation stays shallow)
RECURSIVE Lz77Iters(_, _, _, _, _)
Lz77Iters(input, size, st, stop, n) ==
    IF n = 0 \/ st.pos >= stop THEN st
    ELSE IF n = 1 THEN Lz77Iter(input, size, st, 0)
    ELSE Lz77Iters(input, size, Lz77Iters(input, size, st, stop, n \div 2),
                   stop, n - (n \div 2))

\* the locals of lz77_compress when its loop is entered
Lz77Entry(input) ==
    [pos |-> 0, tokens |-> << >>, hash_table |-> << >>,
     prev |-> [i \in 0..(Len(input) - 1) |-> UNINIT], steps |-> << >>]

\* the locals of lz77_compress on FarInput when pos reaches the last "ABC"
FarEntry == Lz77Iters(FarInput, Len(FarInput), Lz77Entry(FarInput),
                      MAX_DIST + 1, MAX_DIST + 1)

\* lz77_compress on a short input, from its entry, or on FarInput, from
\* the iteration that starts at the last "ABC"
InitWindow ==
    /\ \/ /\ data \in (ShortInputs \ {<< >>})
                       \cup {TieBreakInput, LongerFartherInput,
                             EqualCandidatesInput}
          /\ pos = 0
          /\ tokens = << >>
          /\ hash_table = << >>
          /\ prev = [i \in 0..(Len(data) - 1) |-> UNINIT]
          /\ steps = << >>
       \/ /\ data = FarInput
          /\ \E st \in {FarEntry} :
                /\ pos = st.pos
                /\ tokens = st.tokens
                /\ hash_table = st.hash_table
                /\ prev = st.prev
                /\ steps = st.steps
    /\ run = 1
    /\ first = NotRun
    /\ pc = "lz77"
    /\ input_size = Len(data)
    /\ freq = NoFreq
    /\ huff = NoHuff
    /\ heap = GotAll(FreedAll(GotAll(GotAll(NoHeap, {"input"}),
                                     {"input_data"}), {"input"}), Lz77Allocs)
    /\ bb = init_bitbuffer(0)
    /\ packs = << >>
    /\ tok_i = 0
    /\ exit_code = -1
    /\ out = NoOutput

NextWindow == (\E g \in Garbage : Lz77Step(g)) \/ Lz77Return

SpecWindow == InitWindow /\ [][NextWindow]_vars

\* the search of token k left the chain at a link that is a position
StoppedAtLink(k) ==
    /\ steps[k].searched
    /\ Len(steps[k].cands) < MAX_CHAIN
    /\ NextLink(k) >= 0

\* C28: the positions along a hash chain strictly decrease (prev[q] < q, so
\* no walk cycles), the candidates of a search are compared at strictly
\* increasing distances, all within 32768, and a search that stops at a
\* candidate farther than 32768 leaves no position of the window with the
\* same hash uncompared. The search is the one of the last token made,
\* the cells of prev those its iteration wrote, and at the return all.
ChainOrder ==
    /\ pc = "freq" => \A q \in DOMAIN prev : prev[q] # UNINIT => prev[q] < q
    /\ tokens # << >> =>
          LET k == Len(tokens)
              p == steps[k].pos
              c == steps[k].cands
          IN  /\ \A q \in p..(pos - 1) :
                    (q \in DOMAIN prev /\ prev[q] # UNINIT) => prev[q] < q
              /\ \A i \in 1..Len(c) :
                    /\ c[i] < p
                    /\ p - c[i] <= MAX_DIST
                    /\ i > 1 => c[i] < c[i - 1]
                    /\ i > 1 => c[i] = prev[c[i - 1]]
              /\ StoppedAtLink(k) =>
                    /\ p - NextLink(k) > MAX_DIST
                    /\ \A i \in 1..Len(c) : NextLink(k) < c[i]
                    /\ \A m \in 0..(p - 1) :
                          (HashAt(m) = HashAt(p) /\ p - m <= MAX_DIST)
                              => m \in Examined(k)

\* the search at the last "ABC" compared the second "ABC" and stopped at the
\* first one, which is MAX_DIST + 1 back
ChainOrderWitness ==
    /\ tokens # << >>
    /\ StoppedAtLink(Len(tokens))
    /\ Len(steps[Len(tokens)].cands) = 1
    /\ NextLink(Len(tokens)) = 0
    /\ steps[Len(tokens)].pos = MAX_DIST + 1

(***************************************************************************)
(* Runs of one byte.                                                       *)
(***************************************************************************)
\* the input is one byte repeated
IsRun == \A i \in 1..Len(data) : data[i] = data[1]

\* C29: a run of n equal bytes b, 4 <= n <= 259, gives exactly two tokens,
\* the literal b and a match of length n - 1 at distance 1, whose source
\* overlaps its destination; a run of 3 gives three literals.
SelfOverlappingRun ==
    (Lz77Done /\ IsRun /\ input_size >= MIN_MATCH
              /\ input_size <= MAX_MATCH + 1) =>
        LET b == [literal |-> data[1], length |-> 0, distance |-> 0] IN
        IF input_size = MIN_MATCH
        THEN tokens = <<b, b, b>>
        ELSE tokens = <<b, [literal |-> -1, length |-> input_size - 1,
                            distance |-> 1]>>

\* the longest run of the claim: 259 bytes, a match of 258 at distance 1
SelfOverlappingRunWitness ==
    /\ Lz77Done
    /\ IsRun
    /\ input_size = MAX_MATCH + 1
    /\ Len(tokens) = 2
    /\ tokens[2].length = MAX_MATCH
    /\ tokens[2].distance = 1

(***************************************************************************)
(* Termination: lz77_compress and the encoder, every step being taken.     *)
(***************************************************************************)
\* the longest input of SpecLive, but for the run of four bytes
LiveLen == 3

\* lz77_compress is entered with a non-empty input read
InitLive ==
    /\ data \in UNION {[1..n -> Bytes] : n \in 1..LiveLen}
                 \cup {RunOf(65, MIN_MATCH + 1)}
    /\ run = 1
    /\ first = NotRun
    /\ pc = "lz77"
    /\ input_size = Len(data)
    /\ pos = 0
    /\ tokens = << >>
    /\ hash_table = << >>
    /\ prev = [i \in 0..(Len(data) - 1) |-> UNINIT]
    /\ steps = << >>
    /\ freq = NoFreq
    /\ huff = NoHuff
    /\ heap = GotAll(FreedAll(GotAll(GotAll(NoHeap, {"input"}),
                                     {"input_data"}), {"input"}), Lz77Allocs)
    /\ bb = init_bitbuffer(0)
    /\ packs = << >>
    /\ tok_i = 0
    /\ exit_code = -1
    /\ out = NoOutput

\* the steps from the entry of lz77_compress to flush_bits
NextLive ==
    \/ \E g \in Garbage : Lz77Step(g)
    \/ Lz77Return
    \/ CountFrequencies
    \/ BuildHuffmanTrees
    \/ WriteHeader
    \/ EncodeToken
    \/ WriteEndOfBlock
    \/ FlushBits

\* the program is sequential: whenever it has a next step, it takes it
SpecLive == InitLive /\ [][NextLive]_vars /\ WF_vars(NextLive)

====
